---- MODULE Spec2Model ----
(***************************************************************************)
(* Model of the Advisor service (src/main.py): the sliding-window rate     *)
(* limiter, the /chat and /ask handlers with the structured-response       *)
(* normalisation, and the feedback store with its statistics.              *)
(*                                                                         *)
(* Time is counted in whole seconds.  The wall clock read by               *)
(* datetime.now() is taken to be non-decreasing.                           *)
(* Every handler of main.py is an `async def` without an await inside its  *)
(* body after the request has been read, so a handler body is one atomic   *)
(* step of the event loop.                                                 *)
(***************************************************************************)
EXTENDS Integers, Sequences, FiniteSets, TLC

VARIABLES
    now,            \* the wall clock, in seconds
    ticks,          \* number of clock advances so far
    pending,        \* per client: /ask requests received, handler not yet run
    request_counts, \* main.py request_counts: client -> list of timestamps
    log,            \* history: per client, every /ask request checked [t, ok]
    last_call,      \* history: the latest check_rate_limit call
    feedback,       \* the feedback table: the rating column, in row order
    submitted,      \* history: successful feedback submissions [total, positive]
    last            \* the latest request and the response it was given

vars == <<now, ticks, pending, request_counts, log, last_call, feedback,
          submitted, last>>

----------------------------------------------------------------------------
(* Program constants                                                       *)

RATE_LIMIT_REQUESTS == 10
RATE_LIMIT_WINDOW == 60

(* Bounds of the model                                                     *)

\* clock advances and checked /ask requests, rate-limiter specification
MaxTicks == 2
MaxCalls == 21
\* the same, and requests in flight per client, concurrent specification
MaxTicksConc == 1
MaxCallsConc == 21
MaxPending == 2
\* clock advances and checked /ask requests, two-client specification
MaxTicksIso == 1
MaxCallsIso == 12
\* checked /ask requests, /chat and /ask specification
MaxCallsHttp == 11
\* checked /ask requests and feedback rows, four-handler specification
MaxCallsAll == 2
MaxRowsAll == 1
\* rows of the feedback table, feedback specification
MaxRows == 4
\* characters of a message
MaxMsgLen == 2

Clients == {"a", "b"}
Steps == {1, 59, 60}               \* seconds by which the clock advances
Ratings == {0, 3, 4, 5}            \* the rating is an unvalidated integer
Chars == {" ", "h"}

----------------------------------------------------------------------------
(* Generic helpers                                                         *)

Last(s) == s[Len(s)]

RECURSIVE SeqsUpTo(_, _)
SeqsUpTo(S, n) ==
    IF n = 0 THEN {<<>>}
    ELSE LET shorter == SeqsUpTo(S, n - 1)
         IN  shorter \cup {Append(s, x) : s \in shorter, x \in S}

RECURSIVE SumLen(_, _)
SumLen(f, S) ==
    IF S = {} THEN 0
    ELSE LET c == CHOOSE x \in S : TRUE
         IN  Len(f[c]) + SumLen(f, S \ {c})

RECURSIVE SumSeq(_)
SumSeq(s) == IF s = <<>> THEN 0 ELSE Head(s) + SumSeq(Tail(s))

TotalCalls == SumLen(log, Clients)

----------------------------------------------------------------------------
(* Rate limiter                                                            *)

\* request_counts is a defaultdict(list): a missing key reads as [].
Lookup(counts, ip) == IF ip \in DOMAIN counts THEN counts[ip] ELSE <<>>

Store(counts, ip, list) ==
    [k \in DOMAIN counts \cup {ip} |-> IF k = ip THEN list ELSE counts[k]]

PruneInclusive(list, t) ==
    SelectSeq(list, LAMBDA req_time : t - req_time <= RATE_LIMIT_WINDOW)

PruneOneSecond(list, t) ==
    SelectSeq(list, LAMBDA req_time : t - req_time < 1)

\* main.py 48-51: keep the entries younger than the window.
Prune(list, t) ==
    SelectSeq(list, LAMBDA req_time : t - req_time < RATE_LIMIT_WINDOW)

LimitedStrict(list) == Len(list) > RATE_LIMIT_REQUESTS

\* main.py 53: the ceiling test.
Limited(list) == Len(list) >= RATE_LIMIT_REQUESTS

RateDecisionRecording(list, t) ==
    LET kept == Prune(list, t)
    IN  [ok |-> ~Limited(kept), list |-> Append(kept, t)]

\* main.py 47-57: the result and the list left behind for one client.
RateDecision(list, t) ==
    LET kept == Prune(list, t)
    IN  IF Limited(kept)
        THEN [ok |-> FALSE, list |-> kept]
        ELSE [ok |-> TRUE, list |-> Append(kept, t)]

ClientIpShared(req) == "a"

\* main.py 149: the key of the rate limiter is the peer address.
ClientIp(req) == req.host

\* check_rate_limit(ip), main.py 45-57, with its effect on the state.
check_rate_limit(ip) ==
    LET before == Lookup(request_counts, ip)
        res == RateDecision(before, now)
    IN  /\ request_counts' = Store(request_counts, ip, res.list)
        /\ last_call' = [client |-> ip, t |-> now, before |-> before,
                         after |-> res.list, ok |-> res.ok]

\* The clock advances between requests.
Tick(d) ==
    /\ now' = now + d
    /\ ticks' = ticks + 1
    /\ UNCHANGED <<pending, request_counts, log, last_call, feedback,
                   submitted, last>>

----------------------------------------------------------------------------
(* Requests and responses                                                  *)

Messages == SeqsUpTo(Chars, MaxMsgLen)

FourFields == {"advice", "reasoning_path", "ethical_check", "self_reflection"}

\* A raw /chat body: not JSON, JSON that is no object, or an object whose
\* "message" is absent, not a string, or a string.
ChatBodies ==
    {[json |-> j, message |-> "absent", text |-> <<>>] :
        j \in {"invalid", "array", "object"}}
    \cup {[json |-> "object", message |-> "number", text |-> <<>>]}
    \cup {[json |-> "object", message |-> "string", text |-> m] : m \in Messages}

\* A /ask request: the peer address and the raw body.
AskRequests ==
    {[host |-> h, json |-> j, message |-> "absent", text |-> <<>>] :
        h \in Clients, j \in {"invalid", "array", "object"}}
    \cup {[host |-> h, json |-> "object", message |-> "string", text |-> m] :
        h \in Clients, m \in Messages}

\* What the completion API does: raises, answers without content, or answers
\* with a text.  A text is described by what json.loads makes of it after
\* strip(): an object (with its keys and the keys whose value is ""), a
\* number, text that is no JSON, or nothing but whitespace.
Replies ==
    {[result |-> "text", syntax |-> "object", keys |-> k, blank |-> {}] :
        k \in {FourFields, {"advice"}, FourFields \cup {"note"}}}
    \cup {[result |-> "text", syntax |-> "object", keys |-> FourFields,
           blank |-> {"advice"}]}
    \cup {[result |-> "text", syntax |-> s, keys |-> {}, blank |-> {}] :
        s \in {"number", "text", "blank"}}

Upstreams ==
    Replies \cup {[result |-> r, syntax |-> "text", keys |-> {}, blank |-> {}] :
                    r \in {"raise", "none"}}

GoodReply ==
    [result |-> "text", syntax |-> "object", keys |-> FourFields, blank |-> {}]

NoStats == [total |-> 0, average |-> 0, positive |-> 0, rate |-> 0]

\* A response: status, the shape of the body, the keys of a JSON object body
\* and those whose value is empty, whether the completion API was called,
\* and the exception that left the handler, if any.
Response(status, shape, keys, blank, upstream, exception) ==
    [status |-> status, shape |-> shape, keys |-> keys, blank |-> blank,
     upstream |-> upstream, exception |-> exception]

\* JSONResponse({"error": ...}, status_code=status)
ErrorResponse(status, upstream) ==
    Response(status, "object", {"error"}, {}, upstream, "none")

\* An exception nothing catches: the server answers 500 in plain text.
Unhandled == Response(500, "text", {}, {}, FALSE, "unhandled")

\* The framework's answer to a body that fails the pydantic model.
Unprocessable == Response(422, "object", {"detail"}, {}, FALSE, "none")

\* main.py 151: raise HTTPException(status_code=429, detail=...)
TooManyRequests ==
    Response(429, "object", {"detail"}, {}, FALSE, "HTTPException")

Served(ep, has_msg, msg, r, stats) ==
    [ep |-> ep, has_msg |-> has_msg, msg |-> msg, status |-> r.status,
     shape |-> r.shape, keys |-> r.keys, blank |-> r.blank,
     upstream |-> r.upstream, exception |-> r.exception, stats |-> stats]

RECURSIVE StripLeft(_)
StripLeft(s) ==
    IF s = <<>> THEN s
    ELSE IF Head(s) = " " THEN StripLeft(Tail(s)) ELSE s

RECURSIVE StripRight(_)
StripRight(s) ==
    IF s = <<>> THEN s
    ELSE IF Last(s) = " " THEN StripRight(SubSeq(s, 1, Len(s) - 1)) ELSE s

\* str.strip()
Strip(s) == StripRight(StripLeft(s))

UserMessageRaw(text) == text

\* main.py 127, 153: user_message = <message>.strip()
UserMessage(text) == Strip(text)

\* main.py 171: json.loads succeeds on any JSON value, object or not.
JsonLoads(reply) == reply.syntax \in {"object", "number"}

\* main.py 168-179: the body answered for a reply text.
Normalize(reply, upstream) ==
    IF JsonLoads(reply)
    THEN Response(200, reply.syntax, reply.keys, reply.blank, upstream, "none")
    ELSE Response(200, "object", FourFields,
                  IF reply.syntax = "blank" THEN {"advice"} ELSE {},
                  upstream, "none")

\* main.py 131-144: the completion call of /chat and what is answered.
ChatCompletion(up) ==
    IF up.result \in {"raise", "none"}
    THEN ErrorResponse(500, TRUE)
    ELSE Response(200, "object", {"reply"},
                  IF up.syntax = "blank" THEN {"reply"} ELSE {}, TRUE, "none")

\* main.py 157-182: the completion call of /ask and what is answered.
AskCompletion(up) ==
    IF up.result \in {"raise", "none"}
    THEN ErrorResponse(500, TRUE)
    ELSE Normalize(up, TRUE)

\* POST /chat, main.py 123-144.
ChatOutcome(body, up) ==
    IF body.json = "invalid" THEN Unhandled             \* request.json() raises
    ELSE IF body.json = "array" THEN Unhandled          \* no .get on a list
    ELSE IF body.message = "number" THEN Unhandled      \* no .strip on an int
    ELSE IF UserMessage(body.text) = <<>> THEN ErrorResponse(400, FALSE)
    ELSE ChatCompletion(up)

chat_endpoint(body, up) ==
    /\ last' = Served("chat", body.message = "string", body.text,
                      ChatOutcome(body, up), NoStats)
    /\ UNCHANGED <<now, ticks, pending, request_counts, log, last_call,
                   feedback, submitted>>

\* POST /ask, main.py 146-182, after the rate limiter let the request in.
AskOutcome(req, up) ==
    IF UserMessage(req.text) = <<>> THEN ErrorResponse(400, FALSE)
    ELSE AskCompletion(up)

\* POST /ask.  The body is validated against ChatMessage before the handler
\* is entered; a body that fails never reaches check_rate_limit.
AskHandler(req, up) ==
    IF req.json = "object" /\ req.message = "string"
    THEN /\ check_rate_limit(ClientIp(req))
         /\ log' = [log EXCEPT ![req.host] =
                        Append(@, [t |-> now, ok |-> last_call'.ok])]
         /\ last' = Served("ask", TRUE, req.text,
                           IF last_call'.ok THEN AskOutcome(req, up)
                           ELSE TooManyRequests, NoStats)
         /\ UNCHANGED <<now, ticks, feedback, submitted>>
    ELSE /\ last' = Served("ask", FALSE, <<>>, Unprocessable, NoStats)
         /\ UNCHANGED <<now, ticks, request_counts, log, last_call,
                        feedback, submitted>>

ask_advisor(req, up) ==
    /\ AskHandler(req, up)
    /\ UNCHANGED pending

\* A /ask request arrives and waits for the event loop to run its handler.
Receive(c) ==
    /\ pending[c] < MaxPending
    /\ pending' = [pending EXCEPT ![c] = @ + 1]
    /\ UNCHANGED <<now, ticks, request_counts, log, last_call, feedback,
                   submitted, last>>

\* The event loop runs the handler of one waiting request to its end.
Dispatch(req, up) ==
    /\ pending[req.host] > 0
    /\ pending' = [pending EXCEPT ![req.host] = @ - 1]
    /\ AskHandler(req, up)

----------------------------------------------------------------------------
(* Feedback store                                                          *)

PositiveCountStrict(rows) == Len(SelectSeq(rows, LAMBDA rating : rating > 4))

\* main.py 214: SELECT COUNT(*) FROM feedback WHERE rating >= 4
PositiveCount(rows) == Len(SelectSeq(rows, LAMBDA rating : rating >= 4))

\* round(num / den, 0) for num >= 0, den > 0: Python rounds a tie to even.
RoundHalfEven(num, den) ==
    LET q == num \div den
        r == num % den
    IN  IF 2 * r < den THEN q
        ELSE IF 2 * r > den THEN q + 1
        ELSE IF q % 2 = 0 THEN q ELSE q + 1

\* main.py 211-212, 221: round(AVG(rating) or 0, 2), in hundredths.
AverageRating(rows) ==
    IF Len(rows) > 0 THEN RoundHalfEven(SumSeq(rows) * 100, Len(rows)) ELSE 0

SatisfactionRateTruncated(positive, total) ==
    IF total > 0 THEN (positive * 10000) \div total ELSE 0

\* main.py 223: round(positive / total * 100, 2) if total > 0 else 0,
\* in hundredths of a percent.
SatisfactionRate(positive, total) ==
    IF total > 0 THEN RoundHalfEven(positive * 10000, total) ELSE 0

InsertNothing(rows, rating) == rows

\* main.py 190-194: INSERT INTO feedback ... ; commit
Insert(rows, rating) == Append(rows, rating)

\* main.py 208-224: the aggregate over the table.
Aggregate(rows) ==
    [total |-> Len(rows),
     average |-> AverageRating(rows),
     positive |-> PositiveCount(rows),
     rate |-> SatisfactionRate(PositiveCount(rows), Len(rows))]

\* POST /feedback, main.py 184-199.  `valid`: the body fits FeedbackData;
\* `dbok`: the database can be opened and written.
submit_feedback(valid, rating, dbok) ==
    /\ IF ~valid
       THEN /\ last' = Served("feedback", FALSE, <<>>, Unprocessable, NoStats)
            /\ UNCHANGED <<feedback, submitted>>
       ELSE IF ~dbok
       THEN /\ last' = Served("feedback", FALSE, <<>>,
                              ErrorResponse(500, FALSE), NoStats)
            /\ UNCHANGED <<feedback, submitted>>
       ELSE /\ feedback' = Insert(feedback, rating)
            /\ submitted' =
                 [total |-> submitted.total + 1,
                  positive |-> submitted.positive + IF rating >= 4 THEN 1 ELSE 0]
            /\ last' = Served("feedback", FALSE, <<>>,
                              Response(200, "object", {"status", "message"},
                                       {}, FALSE, "none"), NoStats)
    /\ UNCHANGED <<now, ticks, pending, request_counts, log, last_call>>

\* GET /stats, main.py 201-226.
get_stats(dbok) ==
    /\ last' =
         IF dbok
         THEN Served("stats", FALSE, <<>>,
                     Response(200, "object",
                              {"total_feedback", "average_rating",
                               "positive_feedback", "satisfaction_rate"},
                              {}, FALSE, "none"),
                     Aggregate(feedback))
         ELSE Served("stats", FALSE, <<>>, ErrorResponse(500, FALSE), NoStats)
    /\ UNCHANGED <<now, ticks, pending, request_counts, log, last_call,
                   feedback, submitted>>

----------------------------------------------------------------------------
(* Specifications                                                          *)

NoRequest ==
    Served("none", FALSE, <<>>, Response(0, "none", {}, {}, FALSE, "none"),
           NoStats)

\* The state of a freshly started process on a new database.
Init ==
    /\ now = 0
    /\ ticks = 0
    /\ pending = [c \in Clients |-> 0]
    /\ request_counts = <<>>
    /\ log = [c \in Clients |-> <<>>]
    /\ last_call = [client |-> "none", t |-> 0, before |-> <<>>,
                    after |-> <<>>, ok |-> FALSE]
    /\ feedback = <<>>
    /\ submitted = [total |-> 0, positive |-> 0]
    /\ last = NoRequest

\* The requests of one client whose body is well formed; the rate limiter
\* reads neither the message nor the reply.
PlainAsk(h) ==
    [host |-> h, json |-> "object", message |-> "string", text |-> <<"h">>]

\* One client and the clock: the rate limiter over time.
NextLimiter ==
    \/ \E d \in Steps : ticks < MaxTicks /\ Tick(d)
    \/ TotalCalls < MaxCalls /\ ask_advisor(PlainAsk("a"), GoodReply)

SpecLimiter == Init /\ [][NextLimiter]_vars

\* One client whose requests overlap: each is received, then handled.
NextConcurrent ==
    \/ \E d \in Steps : ticks < MaxTicksConc /\ Tick(d)
    \/ Receive("a")
    \/ TotalCalls < MaxCallsConc /\ Dispatch(PlainAsk("a"), GoodReply)

SpecConcurrent == Init /\ [][NextConcurrent]_vars

\* Two clients on /ask, and /chat.
NextIso ==
    \/ \E d \in {1, 60} : ticks < MaxTicksIso /\ Tick(d)
    \/ \E c \in Clients :
         TotalCalls < MaxCallsIso /\ ask_advisor(PlainAsk(c), GoodReply)
    \/ chat_endpoint([json |-> "object", message |-> "string",
                       text |-> <<"h">>], GoodReply)

SpecIso == Init /\ [][NextIso]_vars

\* Every request and every reply of the completion API on /chat and /ask,
\* at one instant.
NextHttp ==
    \/ \E body \in ChatBodies, up \in Upstreams : chat_endpoint(body, up)
    \/ \E req \in AskRequests, up \in Upstreams :
         TotalCalls < MaxCallsHttp /\ req.host = "a" /\ ask_advisor(req, up)

SpecHttp == Init /\ [][NextHttp]_vars

\* The four handlers together, with every request, reply and database
\* outcome.
NextHandlers ==
    \/ \E body \in ChatBodies, up \in Upstreams : chat_endpoint(body, up)
    \/ \E req \in AskRequests, up \in Upstreams :
         TotalCalls < MaxCallsAll /\ ask_advisor(req, up)
    \/ \E valid, dbok \in BOOLEAN, rating \in Ratings :
         Len(feedback) < MaxRowsAll /\ submit_feedback(valid, rating, dbok)
    \/ \E dbok \in BOOLEAN : get_stats(dbok)

SpecHandlers == Init /\ [][NextHandlers]_vars

\* The feedback store.
NextFeedback ==
    \/ \E valid, dbok \in BOOLEAN, rating \in Ratings :
         Len(feedback) < MaxRows /\ submit_feedback(valid, rating, dbok)
    \/ \E dbok \in BOOLEAN : get_stats(dbok)

SpecFeedback == Init /\ [][NextFeedback]_vars

----------------------------------------------------------------------------
(* Properties                                                              *)

\* The entries of `list` less than the window old at time t.
Unexpired(list, t) ==
    SelectSeq(list, LAMBDA e : e > t - 60)

\* Calls i .. i+10 of client c are eleven calls within one 60-second span.
ElevenWithinSpan(c, i) ==
    /\ i + 10 <= Len(log[c])
    /\ log[c][i + 10].t - log[c][i].t < 60

\* C1, as stated: whenever a client makes 11 calls to POST /ask whose
\* timestamps lie within one 60-second span, the 11th is rejected, from
\* every reachable state of the rate limiter.
C1_EleventhRejected ==
    \A c \in Clients : \A i \in 1..Len(log[c]) :
        ElevenWithinSpan(c, i) => ~log[c][i + 10].ok

\* C1, amended: of 11 consecutive calls of a client within one 60-second
\* span at least one is rejected, and when the first ten of them were
\* accepted it is the 11th that is rejected.
C1_EleventhRejectedAfterTenAccepted ==
    \A c \in Clients : \A i \in 1..Len(log[c]) :
        ElevenWithinSpan(c, i) =>
            /\ \E k \in i..(i + 10) : ~log[c][k].ok
            /\ (\A k \in i..(i + 9) : log[c][k].ok) => ~log[c][i + 10].ok

\* Ten accepted calls and an eleventh, rejected, within one span that began
\* after earlier calls of the client.
C1_Witness ==
    \E i \in 2..Len(log["a"]) :
        /\ ElevenWithinSpan("a", i)
        /\ \A k \in i..(i + 9) : log["a"][k].ok
        /\ ~log["a"][i + 10].ok
        /\ log["a"][i].t - log["a"][i - 1].t >= 60

\* C2: a call made 60 seconds or more after the client's last recorded
\* request drops every stored timestamp and is accepted; 60 seconds exactly
\* counts as expired.
C2_ResetAfterWindow ==
    (last_call.client # "none" /\ last_call.before # <<>>
        /\ last_call.t - Last(last_call.before) >= 60)
    => /\ last_call.ok
       /\ last_call.after = <<last_call.t>>
       /\ request_counts[last_call.client] = <<last_call.t>>

\* A full window, and a call exactly 60 seconds after its last entry.
C2_Witness ==
    /\ last_call.client = "a"
    /\ Len(last_call.before) = 10
    /\ last_call.t - Last(last_call.before) = 60
    /\ last_call.ok

\* C3: a rejected call leaves exactly the unexpired entries the client had
\* and records nothing; an accepted call leaves them followed by one entry,
\* the time of the call.
C3_RejectedNotRecorded ==
    last_call.client # "none" =>
        LET kept == Unexpired(last_call.before, last_call.t)
        IN  /\ request_counts[last_call.client] = last_call.after
            /\ last_call.ok = (Len(kept) < 10)
            /\ ~last_call.ok => last_call.after = kept
            /\ last_call.ok => last_call.after = Append(kept, last_call.t)

\* A call rejected later than every entry of the full window.
C3_Witness ==
    /\ last_call.client = "a"
    /\ ~last_call.ok
    /\ Len(last_call.after) = 10
    /\ last_call.t > Last(last_call.after)

Blank(msg) == \A i \in 1..Len(msg) : msg[i] = " "

EmptyMessageRequest ==
    last.ep \in {"chat", "ask"} /\ last.has_msg /\ Blank(last.msg)

\* C4, as stated: a POST /chat or POST /ask request whose message is empty
\* or only whitespace is answered 400 and calls the completion API never, in
\* every state, the client's window being full included.
C4_EmptyMessage400 ==
    EmptyMessageRequest => last.status = 400 /\ ~last.upstream

\* C4, amended: such a request never calls the completion API; /chat answers
\* it 400, and /ask answers it 400 when the rate limiter accepts the request
\* and 429 when the rate limiter rejects it.
C4_EmptyMessage400Or429 ==
    EmptyMessageRequest =>
        /\ ~last.upstream
        /\ last.ep = "chat" => last.status = 400
        /\ last.ep = "ask" =>
             last.status = (IF last_call.ok THEN 400 ELSE 429)

\* A whitespace message on /ask while the client's window is full.
C4_Witness ==
    /\ last.ep = "ask"
    /\ last.msg = <<" ">>
    /\ last.status = 429
    /\ Len(last_call.before) = 10

\* C5: whatever text the completion API returns, POST /ask answers an object
\* with exactly the four fields, all populated.
C5_NormalizeTotal ==
    (last.ep = "ask" /\ last.status = 200) =>
        /\ last.shape = "object"
        /\ last.keys = FourFields
        /\ last.blank = {}

\* C6: every failure of every handler is answered with a JSON object that
\* has an `error` field, and no exception leaves a handler.
C6_ErrorsCaught ==
    last.status >= 400 =>
        /\ last.exception = "none"
        /\ last.shape = "object"
        /\ "error" \in last.keys

PositiveRows(rows) == Cardinality({i \in 1..Len(rows) : rows[i] >= 4})

\* C7: GET /stats reports as total_feedback the number of successful
\* submissions and as positive_feedback the number of those rated 4 or more;
\* a successful submission adds one row, and no step removes or changes one.
C7_StatsCountSubmissions ==
    [][/\ (last'.ep = "stats" /\ last'.status = 200) =>
             /\ last'.stats.total = submitted'.total
             /\ last'.stats.positive = submitted'.positive
       /\ Len(feedback') = submitted'.total
       /\ PositiveRows(feedback') = submitted'.positive
       /\ Len(feedback') >= Len(feedback)
       /\ SubSeq(feedback', 1, Len(feedback)) = feedback
       /\ (last'.ep = "feedback" /\ last'.status = 200 /\ last' # last) =>
             Len(feedback') = Len(feedback) + 1
      ]_vars

\* Statistics over three submissions of which one is rated exactly 4 and one
\* is rated below.
C7_Witness ==
    /\ last.ep = "stats"
    /\ last.status = 200
    /\ last.stats.total = 3
    /\ last.stats.positive = 2
    /\ \E i \in 1..Len(feedback) : feedback[i] = 4

\* C8, as stated: on an empty store the statistics are all 0, and otherwise
\* satisfaction_rate is exactly positive_feedback / total_feedback x 100.
C8_RateExact ==
    (last.ep = "stats" /\ last.status = 200) =>
        /\ last.stats.total = 0 =>
             last.stats.rate = 0 /\ last.stats.positive = 0
        /\ last.stats.total > 0 =>
             last.stats.rate * last.stats.total = last.stats.positive * 10000
        /\ last.stats.rate >= 0 /\ last.stats.rate <= 10000

\* C8, amended: when the database can be read, on an empty store the
\* statistics are all 0, and otherwise satisfaction_rate is
\* positive_feedback / total_feedback x 100 rounded to two decimal places;
\* it lies between 0 and 100.
C8_RateRounded ==
    /\ (last.ep = "stats" /\ feedback = <<>> /\ last.status = 200) =>
          last.stats = NoStats
    /\ (last.ep = "stats" /\ last.status = 200) =>
          LET diff == last.stats.rate * last.stats.total
                        - last.stats.positive * 10000
          IN  /\ last.stats.total = Len(feedback)
              /\ last.stats.positive = PositiveRows(feedback)
              /\ 2 * diff <= last.stats.total
              /\ -2 * diff <= last.stats.total
              /\ last.stats.rate >= 0 /\ last.stats.rate <= 10000

\* Statistics read from the empty store.
C8_Witness ==
    /\ last.ep = "stats"
    /\ last.status = 200
    /\ feedback = <<>>
    /\ last.stats.rate = 0

\* The accepted calls of client c up to its j-th call that are less than the
\* window older than that call.
AcceptedInWindow(c, j) ==
    {i \in 1..j : log[c][i].ok /\ log[c][j].t - log[c][i].t < 60}

\* C9: with requests of one client overlapping in any way, the client's
\* stored sequence never holds more than 10 timestamps, and no 60-second
\* window ending at a request holds more than 10 accepted requests.
C9_AtMostTenInWindow ==
    /\ \A c \in DOMAIN request_counts : Len(request_counts[c]) <= 10
    /\ \A c \in Clients : \A j \in 1..Len(log[c]) :
          Cardinality(AcceptedInWindow(c, j)) <= 10

\* Two requests in flight while the window is full, after more than ten
\* requests were accepted in all.
C9_Witness ==
    /\ pending["a"] = 2
    /\ Len(Lookup(request_counts, "a")) = 10
    /\ Cardinality({i \in 1..Len(log["a"]) : log["a"][i].ok}) > 10
    /\ ~Last(log["a"]).ok

\* The accepted requests of client c that are less than the window old.
OwnRecent(c) ==
    Cardinality({i \in 1..Len(log[c]) : log[c][i].ok /\ now - log[c][i].t < 60})

\* C10: a client's stored sequence changes only by a POST /ask request of
\* that client; whether the request is accepted is decided by the client's
\* own accepted requests and the time; no other endpoint changes the rate
\* limiter's state.
C10_PerClientIsolation ==
    [][/\ \A b \in Clients :
            log'[b] = log[b] =>
                Lookup(request_counts', b) = Lookup(request_counts, b)
       /\ \A b \in Clients :
            Len(log'[b]) = Len(log[b]) + 1 =>
                Last(log'[b]).ok = (OwnRecent(b) < 10)
       /\ request_counts' # request_counts => last'.ep = "ask"
       /\ (last'.ep = "chat" /\ last' # last) =>
            request_counts' = request_counts
      ]_vars

\* Client b accepted while client a is limited.
C10_Witness ==
    /\ last_call.client = "b"
    /\ last_call.ok
    /\ Len(Lookup(request_counts, "a")) = 10
    /\ Len(log["a"]) > 10
    /\ ~Last(log["a"]).ok

====
